---- MODULE Spec2Model ----
(***************************************************************************)
(* DynamoIdentityWrapper (api/environments/dynamodb/wrappers/              *)
(* identity_wrapper.py): the paginated, capacity-budgeted scan             *)
(* iter_all_items_paginated, the override aggregators built on it, and     *)
(* the bulk writer write_identities.                                       *)
(*                                                                         *)
(* The program is single-threaded and synchronous: one operation is in     *)
(* progress at a time (op), and the generator iter_all_items_paginated     *)
(* advances only when its consumer asks for the next item.                 *)
(***************************************************************************)
EXTENDS Integers, Sequences, FiniteSets, TLC

VARIABLES
    op,                    \* operation in progress, "idle" when none
    pc,                    \* position of the generator / of the write loop
    store,                 \* the pages the store holds for the environment
    capacity_budget,       \* argument capacity_budget (a Decimal)
    get_all_items_kwargs,  \* local get_all_items_kwargs
    last_evaluated_key,    \* local last_evaluated_key
    capacity_spent,        \* local capacity_spent
    query_response,        \* local query_response (None before the first page)
    item_idx,              \* position of `for item in query_response["Items"]`
    requests,              \* log: the queries sent to the table, in order
    yielded,               \* log: the items the generator has yielded, in order
    raised,                \* the exception the operation ended with, or None
    acc,                   \* the aggregators' running result
    identities,            \* argument of write_identities (mapped documents)
    w_idx,                 \* position of `for identity in identities`
    sent,                  \* log: documents passed to batch.put_item, in order
    self_table,            \* self.table: the rows of the identity table
    history,               \* log: the put_item / delete_item calls made so far
    user_email,            \* FFAdminUser.email of the user
    invites,               \* the Invite rows by primary key, None once deleted
    joins,                 \* the join_organisation call of each request
    user_organisations,    \* the stored UserOrganisation rows, in creation order
    records,               \* InfluxDBWrapper.records
    written                \* log: the record lists passed to write_api.write

vars == << op, pc, store, capacity_budget, get_all_items_kwargs,
           last_evaluated_key, capacity_spent, query_response, item_idx,
           requests, yielded, raised, acc, identities, w_idx, sent,
           self_table, history, user_email, invites, joins,
           user_organisations, records, written >>

scan_vars == << store, capacity_budget, get_all_items_kwargs,
                last_evaluated_key, capacity_spent, query_response, item_idx,
                requests, yielded >>

write_vars == << identities, w_idx, sent >>

admin_vars == << user_email, invites, joins, user_organisations >>

influx_vars == << records, written >>

\* the state outside the identity wrapper
service_vars == << admin_vars, influx_vars >>

table_vars == << self_table, history >>

----------------------------------------------------------------------------
(* Bounds of the model *)

MaxPages == 2          \* pages the store holds for one scan
MaxPageItems == 2      \* items on one page
MaxCapacity == 1       \* capacity units one response reports
MaxBudget == 2         \* largest finite capacity_budget supplied
MaxAggIdentities == 2  \* identities stored when an aggregator runs
MaxIdentities == 3     \* identities passed to one write_identities call
MaxLongPages == 3      \* pages of the long scans (one item per page at most)
MaxEnvIdentities == 3  \* identities stored under one environment
MaxLimit == 2          \* page size of the scan made by delete_all_identities
MaxInvites == 2        \* Invite rows ever saved
MaxMemberships == 1    \* UserOrganisation rows of the user, stored or about to be
MaxPoints == 2         \* add_data_point calls on one InfluxDBWrapper
MaxWrites == 2         \* write calls on one InfluxDBWrapper
MaxCalls == 3          \* put_item / delete_item calls made on the table

----------------------------------------------------------------------------
(* Python values *)

\* None / a missing dict key is the empty tuple, a present value v is <<v>>
None == << >>
Some(v) == << v >>
Truthy(x) == Len(x) > 0

\* Decimal("Inf") and finite Decimals
DecimalInf == [inf |-> TRUE, val |-> 0]
Dec(n) == [inf |-> FALSE, val |-> n]

\* number >= Decimal, number a finite int/float
GreaterEq(n, d) == IF d.inf THEN FALSE ELSE n >= d.val

\* the budgets a caller supplies: unbounded (the default) or a finite ceiling
Budgets == {DecimalInf} \cup {Dec(b) : b \in 0..MaxBudget}

----------------------------------------------------------------------------
(* Identity documents and override entries *)

\* An override entry is a dict; the two keys the wrapper reads are
\* "feature_id" (absent or an id) and "feature" (absent, or a dict whose
\* "id" is absent or an id).
Entry(fid, feat) == [feature_id |-> fid, feature |-> feat]

\* entry as the engine serialises it: {"feature": {"id": n}, ...}
DocEntry(n) == Entry(None, Some(Some(n)))
\* entry with no feature reference at all
BareEntry == Entry(None, None)
\* entry carrying a top-level "feature_id" next to "feature"
FlatEntry(n) == Entry(Some(n), Some(Some(n)))

OverrideLists ==
    { << >>,
      << DocEntry(1) >>,
      << DocEntry(2) >>,
      << DocEntry(1), DocEntry(1), DocEntry(2) >>,
      << DocEntry(2), BareEntry >>,
      << BareEntry >>,
      << FlatEntry(1), FlatEntry(1), FlatEntry(2) >> }

\* an identity document; composite_key is unique in the table
Doc(key, features) == [composite_key |-> key, identity_features |-> features]

----------------------------------------------------------------------------
(* The table behind self.table.query: a chain of pages.  Page p carries    *)
(* LastEvaluatedKey [page |-> p] unless it is the last one; a query        *)
(* without ExclusiveStartKey reads page 1, a query resuming from           *)
(* [page |-> p] reads page p + 1.                                          *)

Page(items, lek, cap) ==
    [Items |-> items, LastEvaluatedKey |-> lek, ConsumedCapacity |-> cap]

CapacityReports == {None} \cup {Some(c) : c \in 0..MaxCapacity}

PageShapes == [n : 0..MaxPageItems, cap : CapacityReports]

MkStore(shape) ==
    [p \in 1..Len(shape) |->
        Page([i \in 1..shape[p].n |-> Doc(<<p, i>>, << DocEntry(1) >>)],
             IF p = Len(shape) THEN None ELSE Some([page |-> p]),
             shape[p].cap)]

ScanStores ==
    UNION {{MkStore(shape) : shape \in [1..n -> PageShapes]} : n \in 1..MaxPages}

\* long chains of small pages
LongShapes == [n : 0..1, cap : {None, Some(1)}]

LongStores == {MkStore(shape) : shape \in [1..MaxLongPages -> LongShapes]}

\* The identities of one environment, read `limit` at a time: the table
\* evaluates `limit` items per page, before any filter is applied.
Min(a, b) == IF a < b THEN a ELSE b

PageCount(n, limit) == IF n = 0 THEN 1 ELSE (n + limit - 1) \div limit

PagedStore(features, limit) ==
    [p \in 1..PageCount(Len(features), limit) |->
        Page([i \in 1..(Min(p * limit, Len(features)) - (p - 1) * limit) |->
                 Doc((p - 1) * limit + i, features[(p - 1) * limit + i])],
             IF p = PageCount(Len(features), limit) THEN None
             ELSE Some([page |-> p]),
             None)]

AggStores ==
    UNION {{PagedStore(features, limit) :
              features \in [1..n -> OverrideLists], limit \in 1..MaxPageItems} :
           n \in 0..MaxAggIdentities}

\* Attr("identity_features").ne([])
OverridesFilter(item) == item.identity_features # << >>

ApplyFilter(items, filter_expression) ==
    IF Truthy(filter_expression)
    THEN SelectSeq(items, OverridesFilter)
    ELSE items

\* the page a query reads: the first, or the one after ExclusiveStartKey
PageRead(query_kwargs) ==
    IF Truthy(query_kwargs.ExclusiveStartKey)
    THEN query_kwargs.ExclusiveStartKey[1].page + 1
    ELSE 1

\* self.table.query(**query_kwargs)
query_items(table, query_kwargs) ==
    LET p == PageRead(query_kwargs)
    IN  [table[p] EXCEPT
            !.Items = ApplyFilter(@, query_kwargs.FilterExpression)]

\* The identity table as it is while a call changes it: rows carry the
\* keys of the table and of environment_api_key-identifier-index.
IdentityRow(environment_api_key, identifier) ==
    [composite_key |-> << environment_api_key, identifier >>,
     environment_api_key |-> environment_api_key,
     identifier |-> identifier]

RECURSIVE SortedByIdentifier(_)
SortedByIdentifier(rows) ==
    IF rows = { } THEN << >>
    ELSE LET first == CHOOSE r \in rows :
                         \A q \in rows : r.identifier <= q.identifier
         IN  << first >> \o SortedByIdentifier(rows \ {first})

\* ProjectionExpression: the attributes a response item carries
Project(items, projection_expression) ==
    IF Truthy(projection_expression)
    THEN [i \in 1..Len(items) |-> [composite_key |-> items[i].composite_key]]
    ELSE items

\* self.table.query on environment_api_key-identifier-index: up to Limit
\* rows of the partition after ExclusiveStartKey, in sort key order, with
\* the key of the last row read when Limit was reached
table_query_byOffset(rows, query_kwargs) ==
    LET after == IF Truthy(query_kwargs.ExclusiveStartKey)
                 THEN query_kwargs.ExclusiveStartKey[1].identifier
                 ELSE 0
        matching == SortedByIdentifier(
                        {r \in rows : r.environment_api_key =
                                         query_kwargs.KeyConditionExpression})
        read == SubSeq(matching, after + 1,
                       Min(after + query_kwargs.Limit, Len(matching)))
    IN  Page(Project(read, query_kwargs.ProjectionExpression),
             IF Len(read) = query_kwargs.Limit
             THEN Some([identifier |-> after + query_kwargs.Limit])
             ELSE None,
             None)
table_query(rows, query_kwargs) ==
    LET after == IF Truthy(query_kwargs.ExclusiveStartKey)
                 THEN query_kwargs.ExclusiveStartKey[1].identifier
                 ELSE 0
        matching == SortedByIdentifier(
                        {r \in rows :
                            /\ r.environment_api_key =
                                  query_kwargs.KeyConditionExpression
                            /\ r.identifier > after})
        read == SubSeq(matching, 1, Min(query_kwargs.Limit, Len(matching)))
    IN  Page(Project(read, query_kwargs.ProjectionExpression),
             IF Len(read) = query_kwargs.Limit
             THEN Some(read[Len(read)])
             ELSE None,
             None)

\* a page request that fails in the transport raises instead of answering
TransportErrors == {"ClientError", "EndpointConnectionError"}

FailedPage(error) == [TransportError |-> error]

TransportFails(table, query_kwargs) ==
    "TransportError" \in DOMAIN table[PageRead(query_kwargs)]

TransportErrorOf(table, query_kwargs) ==
    table[PageRead(query_kwargs)].TransportError

\* the scans whose request for the last page fails
FailingStores ==
    UNION {{SubSeq(t, 1, n - 1) \o << FailedPage(e) >> :
               n \in 1..Len(t), e \in TransportErrors} : t \in ScanStores}

----------------------------------------------------------------------------
(* get_all_items: builds the query from its keyword arguments *)

\* "ReturnConsumedCapacity": "TOTAL" only when asked for
get_all_items_filterFirstPageOnly(kwargs) ==
    [IndexName |-> "environment_api_key-identifier-index",
     KeyConditionExpression |-> kwargs.environment_api_key,
     Limit |-> kwargs.limit,
     ExclusiveStartKey |-> kwargs.start_key,
     FilterExpression |-> IF Truthy(kwargs.start_key) THEN None
                          ELSE kwargs.filter_expression,
     ProjectionExpression |-> kwargs.projection_expression,
     ReturnConsumedCapacity |->
        IF kwargs.return_consumed_capacity THEN Some("TOTAL") ELSE None]
get_all_items(kwargs) ==
    [IndexName |-> "environment_api_key-identifier-index",
     KeyConditionExpression |-> kwargs.environment_api_key,
     Limit |-> kwargs.limit,
     ExclusiveStartKey |-> kwargs.start_key,
     FilterExpression |-> kwargs.filter_expression,
     ProjectionExpression |-> kwargs.projection_expression,
     ReturnConsumedCapacity |->
        IF kwargs.return_consumed_capacity THEN Some("TOTAL") ELSE None]

----------------------------------------------------------------------------
(* iter_all_items_paginated *)

\* capacity_budget != Decimal("Inf")
WantsConsumedCapacity_always(budget) == TRUE
WantsConsumedCapacity(budget) == budget # DecimalInf

\* capacity_spent = 0
InitialCapacitySpent == 0

\* capacity_spent >= capacity_budget
BudgetExceeded_strict(spent, budget) ==
    IF budget.inf THEN FALSE ELSE spent > budget.val
BudgetExceeded_offbyone(spent, budget) ==
    IF budget.inf THEN FALSE ELSE spent + 1 >= budget.val
BudgetExceeded(spent, budget) == GreaterEq(spent, budget)

\* with suppress(KeyError): capacity_spent += response["ConsumedCapacity"]["CapacityUnits"]
AddConsumedCapacity_missingCountsOne(spent, response) ==
    IF Truthy(response.ConsumedCapacity)
    THEN spent + response.ConsumedCapacity[1]
    ELSE spent + 1
AddConsumedCapacity(spent, response) ==
    IF Truthy(response.ConsumedCapacity)
    THEN spent + response.ConsumedCapacity[1]
    ELSE spent

\* last_evaluated_key := query_response.get("LastEvaluatedKey")
NextKey_stopOnEmptyPage(response) ==
    IF Len(response.Items) = 0 THEN None ELSE response.LastEvaluatedKey
NextKey(response) == response.LastEvaluatedKey

\* the item the for loop hands to `yield`
ItemAt_first(response, i) == response.Items[1]
ItemAt(response, i) == response.Items[i]

\* line 150: get_all_items_kwargs["start_key"] = last_evaluated_key
WithStartKey_keepFirst(kwargs, key) ==
    IF Truthy(kwargs.start_key) THEN kwargs ELSE [kwargs EXCEPT !.start_key = key]
WithStartKey(kwargs, key) == [kwargs EXCEPT !.start_key = key]

InitialKwargs(budget, overrides_only) ==
    [environment_api_key |-> "env",
     limit |-> "IDENTITIES_PAGINATION_LIMIT",
     projection_expression |-> None,
     return_consumed_capacity |-> WantsConsumedCapacity(budget),
     filter_expression |-> IF overrides_only THEN Some("identity_features <> []")
                           ELSE None,
     start_key |-> None]

IdleState ==
    [op |-> "idle", pc |-> "idle", store |-> << >>,
     capacity_budget |-> DecimalInf, get_all_items_kwargs |-> None,
     last_evaluated_key |-> None, capacity_spent |-> 0,
     query_response |-> None, item_idx |-> 0, requests |-> << >>,
     yielded |-> << >>, raised |-> None, acc |-> None,
     identities |-> << >>, w_idx |-> 0, sent |-> << >>]

Init ==
    /\ op = IdleState.op
    /\ pc = IdleState.pc
    /\ store = IdleState.store
    /\ capacity_budget = IdleState.capacity_budget
    /\ get_all_items_kwargs = IdleState.get_all_items_kwargs
    /\ last_evaluated_key = IdleState.last_evaluated_key
    /\ capacity_spent = IdleState.capacity_spent
    /\ query_response = IdleState.query_response
    /\ item_idx = IdleState.item_idx
    /\ requests = IdleState.requests
    /\ yielded = IdleState.yielded
    /\ raised = IdleState.raised
    /\ acc = IdleState.acc
    /\ identities = IdleState.identities
    /\ w_idx = IdleState.w_idx
    /\ sent = IdleState.sent
    /\ self_table = { }
    /\ history = << >>
    /\ user_email = << >>
    /\ invites = << >>
    /\ joins = << >>
    /\ user_organisations = << >>
    /\ records = << >>
    /\ written = << >>

\* The generator object is created; its body runs at the first next().
StartScan(operation, table, budget, overrides_only) ==
    /\ UNCHANGED << table_vars, service_vars >>
    /\ op' = operation
    /\ pc' = "created"
    /\ store' = table
    /\ capacity_budget' = budget
    /\ get_all_items_kwargs' = Some(InitialKwargs(budget, overrides_only))
    /\ UNCHANGED << last_evaluated_key, capacity_spent, query_response,
                    item_idx, requests, yielded, raised, identities, w_idx,
                    sent >>

\* a caller iterates iter_all_items_paginated(env, capacity_budget=budget)
Call_iter_all_items_paginated ==
    /\ op = "idle"
    /\ \E table \in ScanStores \cup LongStores, budget \in Budgets :
          StartScan("iter_all_items_paginated", table, budget, FALSE)
    /\ acc' = None

\* lines 126-135: the body up to the while loop
GenSetup ==
    /\ UNCHANGED << table_vars, service_vars >>
    /\ pc = "setup"
    /\ last_evaluated_key' = Some("initial")
    /\ capacity_spent' = InitialCapacitySpent
    /\ pc' = "while"
    /\ UNCHANGED << op, store, capacity_budget, get_all_items_kwargs,
                    query_response, item_idx, requests, yielded, raised, acc,
                    write_vars >>

\* line 136: while last_evaluated_key
GenWhile ==
    /\ UNCHANGED << table_vars, service_vars >>
    /\ pc = "while"
    /\ pc' = IF Truthy(last_evaluated_key) THEN "check" ELSE "done"
    /\ UNCHANGED << op, scan_vars, raised, acc, write_vars >>

\* lines 138-141: the exception and what it carries
CapacityBudgetExceeded_unspent(budget, spent) ==
    [type |-> "CapacityBudgetExceeded",
     capacity_budget |-> budget,
     capacity_spent |-> InitialCapacitySpent]
CapacityBudgetExceeded(budget, spent) ==
    [type |-> "CapacityBudgetExceeded",
     capacity_budget |-> budget,
     capacity_spent |-> spent]

\* lines 137-141: the budget check
GenBudgetCheck ==
    /\ UNCHANGED << table_vars, service_vars >>
    /\ pc = "check"
    /\ IF BudgetExceeded(capacity_spent, capacity_budget)
       THEN /\ pc' = "raised"
            /\ raised' = Some(CapacityBudgetExceeded(capacity_budget,
                                                     capacity_spent))
       ELSE /\ pc' = "query"
            /\ UNCHANGED raised
    /\ UNCHANGED << op, scan_vars, acc, write_vars >>

\* the scan of delete_all_identities reads the table the call is changing
LiveScan == op = "delete_all_identities"

\* lines 142-144: no handler surrounds the page request, so an error of the
\* transport ends the generator
OnTransportError_retry == "query"
OnTransportError == "raised"

\* lines 142-146: one page request, and the capacity it reports
GenQuery ==
    /\ UNCHANGED << table_vars, service_vars >>
    /\ pc = "query"
    /\ Len(requests) <= MaxPages + MaxLongPages
    /\ LET query_kwargs == get_all_items(get_all_items_kwargs[1])
           response == IF LiveScan
                       THEN table_query(self_table, query_kwargs)
                       ELSE query_items(store, query_kwargs)
       IN  /\ requests' = Append(requests, query_kwargs)
           /\ IF ~LiveScan /\ TransportFails(store, query_kwargs)
              THEN /\ raised' = Some([type |-> TransportErrorOf(store, query_kwargs)])
                   /\ pc' = OnTransportError
                   /\ UNCHANGED << query_response, capacity_spent, item_idx >>
              ELSE /\ query_response' = Some(response)
                   /\ capacity_spent' = AddConsumedCapacity(capacity_spent, response)
                   /\ item_idx' = 1
                   /\ pc' = "for"
                   /\ UNCHANGED raised
    /\ UNCHANGED << op, store, capacity_budget, get_all_items_kwargs,
                    last_evaluated_key, yielded, acc, write_vars >>

\* lines 147-150: yield the next item of the page, or leave the for loop
GenFor_eager ==
    /\ UNCHANGED << table_vars, service_vars >>
    /\ pc = "for"
    /\ IF item_idx <= Len(query_response[1].Items)
       THEN /\ yielded' = Append(yielded, ItemAt(query_response[1], item_idx))
            /\ pc' = "yield"
            /\ requests' =
                  IF /\ item_idx = Len(query_response[1].Items)
                     /\ Truthy(NextKey(query_response[1]))
                  THEN Append(requests,
                              get_all_items(WithStartKey(get_all_items_kwargs[1],
                                                         NextKey(query_response[1]))))
                  ELSE requests
            /\ UNCHANGED << last_evaluated_key, get_all_items_kwargs >>
       ELSE /\ last_evaluated_key' = NextKey(query_response[1])
            /\ get_all_items_kwargs' =
                  IF Truthy(NextKey(query_response[1]))
                  THEN Some(WithStartKey(get_all_items_kwargs[1],
                                         NextKey(query_response[1])))
                  ELSE get_all_items_kwargs
            /\ pc' = "while"
            /\ UNCHANGED << yielded, requests >>
    /\ UNCHANGED << op, store, capacity_budget, capacity_spent, query_response,
                    item_idx, raised, acc, write_vars >>
GenFor ==
    /\ UNCHANGED << table_vars, service_vars >>
    /\ pc = "for"
    /\ IF item_idx <= Len(query_response[1].Items)
       THEN /\ yielded' = Append(yielded, ItemAt(query_response[1], item_idx))
            /\ pc' = "yield"
            /\ UNCHANGED << last_evaluated_key, get_all_items_kwargs >>
       ELSE /\ last_evaluated_key' = NextKey(query_response[1])
            /\ get_all_items_kwargs' =
                  IF Truthy(NextKey(query_response[1]))
                  THEN Some(WithStartKey(get_all_items_kwargs[1],
                                         NextKey(query_response[1])))
                  ELSE get_all_items_kwargs
            /\ pc' = "while"
            /\ UNCHANGED yielded
    /\ UNCHANGED << op, store, capacity_budget, capacity_spent, query_response,
                    item_idx, requests, raised, acc, write_vars >>

\* the caller asks for the next item: next(generator)
CallerNext ==
    /\ UNCHANGED << table_vars, service_vars >>
    /\ op = "iter_all_items_paginated"
    /\ \/ /\ pc = "created"
          /\ pc' = "setup"
          /\ UNCHANGED item_idx
       \/ /\ pc = "yield"
          /\ pc' = "for"
          /\ item_idx' = item_idx + 1
    /\ UNCHANGED << op, store, capacity_budget, get_all_items_kwargs,
                    last_evaluated_key, capacity_spent, query_response,
                    requests, yielded, raised, acc, write_vars >>

\* the caller stops iterating; the suspended generator is never resumed
CallerStop ==
    /\ UNCHANGED << table_vars, service_vars >>
    /\ op = "iter_all_items_paginated"
    /\ pc \in {"created", "yield"}
    /\ pc' = "closed"
    /\ UNCHANGED << op, scan_vars, raised, acc, write_vars >>

Terminal == {"done", "raised", "closed", "returned"}

\* the operation is over; the wrapper is ready for the next call
\* (delete_all_identities is over only once its with block is left)
Finish ==
    /\ UNCHANGED << table_vars, service_vars >>
    /\ IF LiveScan THEN pc = "returned" ELSE pc \in Terminal
    /\ op' = IdleState.op
    /\ pc' = IdleState.pc
    /\ store' = IdleState.store
    /\ capacity_budget' = IdleState.capacity_budget
    /\ get_all_items_kwargs' = IdleState.get_all_items_kwargs
    /\ last_evaluated_key' = IdleState.last_evaluated_key
    /\ capacity_spent' = IdleState.capacity_spent
    /\ query_response' = IdleState.query_response
    /\ item_idx' = IdleState.item_idx
    /\ requests' = IdleState.requests
    /\ yielded' = IdleState.yielded
    /\ raised' = IdleState.raised
    /\ acc' = IdleState.acc
    /\ identities' = IdleState.identities
    /\ w_idx' = IdleState.w_idx
    /\ sent' = IdleState.sent

Generator == GenSetup \/ GenWhile \/ GenBudgetCheck \/ GenQuery \/ GenFor

Next ==
    \/ Call_iter_all_items_paginated
    \/ Generator
    \/ CallerNext
    \/ CallerStop
    \/ Finish

Spec == Init /\ [][Next]_vars

\* a caller iterates a scan whose last page request fails
Call_iter_all_items_paginated_failing ==
    /\ op = "idle"
    /\ \E table \in FailingStores, budget \in Budgets :
          StartScan("iter_all_items_paginated", table, budget, FALSE)
    /\ acc' = None

ErrNext ==
    \/ Call_iter_all_items_paginated_failing
    \/ Generator
    \/ CallerNext
    \/ CallerStop
    \/ Finish

ErrSpec == Init /\ [][ErrNext]_vars

\* the code runs on; the caller either pulls the next item or stops
FairSpec ==
    /\ Spec
    /\ WF_vars(Generator)
    /\ WF_vars(CallerNext \/ CallerStop)

----------------------------------------------------------------------------
(* The override aggregators, consumers of the overrides-only scan *)

AggregatorOps ==
    {"get_identity_overrides_count", "get_identity_override_feature_counts"}

\* f["feature_id"]: a direct subscript, KeyError when the key is absent
HasFeatureIdKey(feature_override) == Truthy(feature_override.feature_id)

\* len({f["feature_id"] for f in identity["identity_features"]})
DistinctFeatureIdKeys(identity) ==
    Cardinality({identity.identity_features[i].feature_id[1] :
                    i \in 1..Len(identity.identity_features)})

\* feature_override.get("feature", {}).get("id", 0)
FeatureOverrideId(feature_override) ==
    IF Truthy(feature_override.feature) /\ Truthy(feature_override.feature[1])
    THEN feature_override.feature[1][1]
    ELSE 0

\* unique_feature_ids, the set built by lines 221-225
UniqueFeatureIds(identity) ==
    {FeatureOverrideId(identity.identity_features[i]) :
        i \in 1..Len(identity.identity_features)}

\* how often lines 227-230 increment feature_id's counter for one identity
Increments_perEntry(identity, feature_id) ==
    Cardinality({i \in 1..Len(identity.identity_features) :
                    FeatureOverrideId(identity.identity_features[i]) = feature_id})
Increments(identity, feature_id) ==
    IF feature_id \in UniqueFeatureIds(identity) THEN 1 ELSE 0

\* feature_to_identity_count after the identity has been processed
CountIdentity(feature_to_identity_count, identity) ==
    [feature_id \in DOMAIN feature_to_identity_count
                    \cup UniqueFeatureIds(identity) |->
        (IF feature_id \in DOMAIN feature_to_identity_count
         THEN feature_to_identity_count[feature_id] ELSE 0)
        + Increments(identity, feature_id)]

Call_get_identity_overrides_count ==
    /\ op = "idle"
    /\ \E table \in AggStores :
          StartScan("get_identity_overrides_count", table, DecimalInf, TRUE)
    /\ acc' = 0

Call_get_identity_override_feature_counts ==
    /\ op = "idle"
    /\ \E table \in AggStores :
          StartScan("get_identity_override_feature_counts", table, DecimalInf,
                    TRUE)
    /\ acc' = << >>

\* sum(...) / the for statement ask the generator for its first item
AggregatorFirstNext ==
    /\ UNCHANGED << table_vars, service_vars >>
    /\ op \in AggregatorOps
    /\ pc = "created"
    /\ pc' = "setup"
    /\ UNCHANGED << op, scan_vars, raised, acc, write_vars >>

\* line 205, for the identity just yielded; then the next item is asked for
OverridesCountItem ==
    /\ UNCHANGED << table_vars, service_vars >>
    /\ op = "get_identity_overrides_count"
    /\ pc = "yield"
    /\ LET identity == yielded[Len(yielded)]
       IN  IF \A i \in 1..Len(identity.identity_features) :
                 HasFeatureIdKey(identity.identity_features[i])
           THEN /\ acc' = acc + DistinctFeatureIdKeys(identity)
                /\ pc' = "for"
                /\ item_idx' = item_idx + 1
                /\ UNCHANGED raised
           ELSE /\ raised' = Some([type |-> "KeyError", key |-> "feature_id"])
                /\ pc' = "raised"
                /\ UNCHANGED << acc, item_idx >>
    /\ UNCHANGED << op, store, capacity_budget, get_all_items_kwargs,
                    last_evaluated_key, capacity_spent, query_response,
                    requests, yielded, write_vars >>

\* lines 221-230, for the identity just yielded; then the next item
FeatureCountsItem ==
    /\ UNCHANGED << table_vars, service_vars >>
    /\ op = "get_identity_override_feature_counts"
    /\ pc = "yield"
    /\ acc' = CountIdentity(acc, yielded[Len(yielded)])
    /\ pc' = "for"
    /\ item_idx' = item_idx + 1
    /\ UNCHANGED << op, store, capacity_budget, get_all_items_kwargs,
                    last_evaluated_key, capacity_spent, query_response,
                    requests, yielded, raised, write_vars >>

\* the generator is exhausted: the aggregator returns its result (acc)
AggregatorReturn ==
    /\ UNCHANGED << table_vars, service_vars >>
    /\ op \in AggregatorOps
    /\ pc = "done"
    /\ pc' = "returned"
    /\ UNCHANGED << op, scan_vars, raised, acc, write_vars >>

AggNext ==
    \/ Call_get_identity_overrides_count
    \/ Call_get_identity_override_feature_counts
    \/ AggregatorFirstNext
    \/ Generator
    \/ OverridesCountItem
    \/ FeatureCountsItem
    \/ AggregatorReturn
    \/ Finish

AggSpec == Init /\ [][AggNext]_vars

----------------------------------------------------------------------------
(* write_identities *)

\* if len(identity_document["identifier"]) > 1024
MaxIdentifierLength == 1024

\* An identifier is a str, given by how many of its characters UTF-8
\* encodes in one byte and in two bytes.
Identifier(ascii, wide) == [ascii |-> ascii, wide |-> wide]

\* len(identifier): the number of characters
StrLen(identifier) == identifier.ascii + identifier.wide

\* len(identifier.encode()): the number of bytes the store counts
Utf8Len(identifier) == identifier.ascii + 2 * identifier.wide

Identifiers ==
    ({Identifier(a, w) :
         a \in {0, MaxIdentifierLength - 1, MaxIdentifierLength,
                MaxIdentifierLength + 1},
         w \in {0, 1}}
     \cup {Identifier(0, MaxIdentifierLength)})
    \ {Identifier(0, 0)}

\* the documents map_identity_to_identity_document gives for the identities
IdentityDocuments == {[identifier |-> x] : x \in Identifiers}

IdentifierTooLong_inclusive(identity_document) ==
    StrLen(identity_document.identifier) >= MaxIdentifierLength
IdentifierTooLong(identity_document) ==
    StrLen(identity_document.identifier) > MaxIdentifierLength

\* the batch writer sends the put requests it holds: each document is
\* stored under its key (within one environment the identifier decides the
\* key, so documents with equal keys are equal here)
FlushPuts(rows, documents) ==
    rows \cup {documents[i] : i \in 1..Len(documents)}

Call_write_identities ==
    /\ UNCHANGED << table_vars, service_vars >>
    /\ op = "idle"
    /\ \E n \in 0..MaxIdentities :
          \E documents \in [1..n -> IdentityDocuments] :
              identities' = documents
    /\ op' = "write_identities"
    /\ pc' = "batch"
    /\ w_idx' = 1
    /\ sent' = << >>
    /\ UNCHANGED << scan_vars, raised, acc >>

\* lines 49-58: one turn of the loop inside the batch writer; at a
\* batch.put_item call the batch writer may send what it holds
WriteIdentity ==
    /\ UNCHANGED << history, service_vars >>
    /\ op = "write_identities"
    /\ pc = "batch"
    /\ w_idx <= Len(identities)
    /\ IF IdentifierTooLong(identities[w_idx])
       THEN UNCHANGED << sent, self_table >>
       ELSE /\ sent' = Append(sent, identities[w_idx])
            /\ \E flush \in BOOLEAN :
                  self_table' = IF flush THEN FlushPuts(self_table, sent')
                                ELSE self_table
    /\ w_idx' = w_idx + 1
    /\ UNCHANGED << op, pc, scan_vars, raised, acc, identities >>

\* the loop is over and the with block of line 48 is left: the batch writer
\* sends the documents it still holds
WriteExit ==
    /\ UNCHANGED << history, service_vars >>
    /\ op = "write_identities"
    /\ pc = "batch"
    /\ w_idx > Len(identities)
    /\ self_table' = FlushPuts(self_table, sent)
    /\ pc' = "returned"
    /\ UNCHANGED << op, scan_vars, raised, acc, write_vars >>

WriteNext ==
    \/ Call_write_identities
    \/ WriteIdentity
    \/ WriteExit
    \/ Finish

WriteSpec == Init /\ [][WriteNext]_vars

----------------------------------------------------------------------------
(* put_item, get_item, delete_item and the lookups by uuid *)

CompositeKeys == {"env_alice", "env_bob"}
Uuids == {"u1", "u2"}

\* an identity_dict: the attributes the table and its uuid index key on
Row(composite_key, identity_uuid) ==
    [composite_key |-> composite_key, identity_uuid |-> identity_uuid]

IdentityDicts == {Row(k, u) : k \in CompositeKeys, u \in Uuids}

\* self.table.put_item(Item=item): replaces the row with the same primary key
table_put_item(rows, item) ==
    {r \in rows : r.composite_key # item.composite_key} \cup {item}

\* self.table.get_item(Key=key): a response with "Item" only when a row matches
table_get_item(rows, key) ==
    IF \E r \in rows : r.composite_key = key.composite_key
    THEN [Item |-> Some(CHOOSE r \in rows : r.composite_key = key.composite_key)]
    ELSE [Item |-> None]

\* self.table.delete_item(Key=key): no error when no row matches
table_delete_item(rows, key) ==
    {r \in rows : r.composite_key # key.composite_key}

\* self.table.query on identity_uuid-index with Limit 1: the responses the
\* table may give
table_query_uuid_index(rows, uuid) ==
    IF \E r \in rows : r.identity_uuid = uuid
    THEN {[Items |-> << r >>] : r \in {x \in rows : x.identity_uuid = uuid}}
    ELSE {[Items |-> << >>]}

\* the outcome of a call: the exception it raised, or the value it returned
Raises(exception) == [raised |-> Some(exception), value |-> None]
Returns(value) == [raised |-> None, value |-> Some(value)]

\* line 61: self.table.get_item(Key={"composite_key": composite_key}).get("Item")
get_item_subscript(rows, composite_key) ==
    LET response == table_get_item(rows, [composite_key |-> composite_key])
    IN  IF Truthy(response.Item) THEN Returns(response.Item)
        ELSE Raises("KeyError")
get_item(rows, composite_key) ==
    Returns(table_get_item(rows, [composite_key |-> composite_key]).Item)

\* lines 81-84: self.query_items(**query_kwargs)["Items"][0]
get_item_from_uuid(response) ==
    IF Len(response.Items) = 0
    THEN Raises("ObjectDoesNotExist")
    ELSE Returns(response.Items[1])

\* lines 87-90
get_item_from_uuid_or_404(response) ==
    IF get_item_from_uuid(response).raised = Some("ObjectDoesNotExist")
    THEN Raises("NotFound")
    ELSE get_item_from_uuid(response)

\* the segment ids the evaluator gives for a resolved identity (lines 189-199)
SegmentIdLists == {<< >>, << 1 >>}

\* lines 182-201; `response` answers the uuid query, `segment_ids` is what
\* the evaluation of lines 189-199 gives
get_segment_ids_unsuppressed(identity_pk, identity_model, response, segment_ids) ==
    IF ~(Truthy(identity_pk) \/ Truthy(identity_model))
    THEN Raises("ValueError")
    ELSE IF Truthy(identity_model)
    THEN Returns(segment_ids)
    ELSE IF Truthy(get_item_from_uuid(response).raised)
    THEN get_item_from_uuid(response)
    ELSE Returns(segment_ids)
get_segment_ids(identity_pk, identity_model, response, segment_ids) ==
    IF ~(Truthy(identity_pk) \/ Truthy(identity_model))
    THEN Raises("ValueError")
    ELSE IF Truthy(identity_model)
    THEN Returns(segment_ids)
    ELSE IF get_item_from_uuid(response).raised = Some("ObjectDoesNotExist")
    THEN Returns(<< >>)
    ELSE Returns(segment_ids)

\* a call that runs to its end in one step: its arguments and its outcome
EndCall(operation, arguments, outcome) ==
    /\ op = "idle"
    /\ op' = operation
    /\ pc' = IF Truthy(outcome.raised) THEN "raised" ELSE "returned"
    /\ raised' = outcome.raised
    /\ acc' = [args |-> arguments, value |-> outcome.value]
    /\ UNCHANGED << scan_vars, write_vars >>

Call_put_item ==
    /\ UNCHANGED service_vars
    /\ Len(history) < MaxCalls
    /\ \E identity_dict \in IdentityDicts :
          /\ self_table' = table_put_item(self_table, identity_dict)
          /\ history' = Append(history, [call |-> "put_item",
                                         composite_key |-> identity_dict.composite_key,
                                         item |-> Some(identity_dict)])
          /\ EndCall("put_item", identity_dict, Returns(None))

Call_delete_item ==
    /\ UNCHANGED service_vars
    /\ Len(history) < MaxCalls
    /\ \E composite_key \in CompositeKeys :
          /\ self_table' = table_delete_item(self_table,
                                             [composite_key |-> composite_key])
          /\ history' = Append(history, [call |-> "delete_item",
                                         composite_key |-> composite_key,
                                         item |-> None])
          /\ EndCall("delete_item", composite_key, Returns(None))

Call_get_item ==
    /\ \E composite_key \in CompositeKeys :
          EndCall("get_item", composite_key, get_item(self_table, composite_key))
    /\ UNCHANGED << table_vars, service_vars >>

Call_get_item_from_uuid_or_404 ==
    /\ \E uuid \in Uuids :
          \E response \in table_query_uuid_index(self_table, uuid) :
              EndCall("get_item_from_uuid_or_404",
                      [uuid |-> uuid, response |-> response],
                      get_item_from_uuid_or_404(response))
    /\ UNCHANGED << table_vars, service_vars >>

Call_get_segment_ids ==
    /\ \E identity_pk \in {None} \cup {Some(u) : u \in Uuids},
          identity_model \in {None} \cup {Some(d) : d \in self_table},
          segment_ids \in SegmentIdLists :
          \E response \in
                IF Truthy(identity_pk)
                THEN table_query_uuid_index(self_table, identity_pk[1])
                ELSE {[Items |-> << >>]} :
              EndCall("get_segment_ids",
                      [identity_pk |-> identity_pk,
                       identity_model |-> identity_model,
                       response |-> response],
                      get_segment_ids(identity_pk, identity_model, response,
                                      segment_ids))
    /\ UNCHANGED << table_vars, service_vars >>

TableNext ==
    \/ Call_put_item
    \/ Call_delete_item
    \/ Call_get_item
    \/ Call_get_item_from_uuid_or_404
    \/ Call_get_segment_ids
    \/ Finish

TableSpec == Init /\ [][TableNext]_vars

----------------------------------------------------------------------------
(* delete_all_identities: a scan whose items are deleted through a batch   *)
(* writer while the scan goes on                                           *)

OtherEnvironmentRows == {{ }, {IdentityRow("env2", 1)}}

\* the identity tables a call may find
IdentityTables ==
    {{IdentityRow("env", i) : i \in ids} \cup others :
        ids \in SUBSET (1..MaxEnvIdentities), others \in OtherEnvironmentRows}

DelInit ==
    /\ op = IdleState.op
    /\ pc = IdleState.pc
    /\ store = IdleState.store
    /\ capacity_budget = IdleState.capacity_budget
    /\ get_all_items_kwargs = IdleState.get_all_items_kwargs
    /\ last_evaluated_key = IdleState.last_evaluated_key
    /\ capacity_spent = IdleState.capacity_spent
    /\ query_response = IdleState.query_response
    /\ item_idx = IdleState.item_idx
    /\ requests = IdleState.requests
    /\ yielded = IdleState.yielded
    /\ raised = IdleState.raised
    /\ acc = IdleState.acc
    /\ identities = IdleState.identities
    /\ w_idx = IdleState.w_idx
    /\ sent = IdleState.sent
    /\ self_table \in IdentityTables
    /\ history = << >>
    /\ user_email = << >>
    /\ invites = << >>
    /\ joins = << >>
    /\ user_organisations = << >>
    /\ records = << >>
    /\ written = << >>

\* lines 68-71: the arguments of the scan
DeleteScanKwargs(environment_api_key, limit) ==
    [InitialKwargs(DecimalInf, FALSE) EXCEPT
        !.environment_api_key = environment_api_key,
        !.limit = limit,
        !.projection_expression = Some("composite_key")]

\* the batch writer sends the deletes it holds: rows with these keys go
FlushDeletes(rows, keys) ==
    {r \in rows : \A i \in 1..Len(keys) : keys[i].composite_key # r.composite_key}

\* delete_all_identities(environment_api_key); `acc` keeps the argument and
\* the table as the call found it
Call_delete_all_identities ==
    /\ op = "idle"
    /\ \E limit \in 1..MaxLimit :
          get_all_items_kwargs' = Some(DeleteScanKwargs("env", limit))
    /\ op' = "delete_all_identities"
    /\ pc' = "created"
    /\ capacity_budget' = DecimalInf
    /\ acc' = [args |-> [environment_api_key |-> "env"],
               table_before |-> self_table]
    /\ UNCHANGED << store, last_evaluated_key, capacity_spent, query_response,
                    item_idx, requests, yielded, raised, write_vars,
                    table_vars,
                    service_vars >>

\* line 68: the for loop asks the generator for its first item
DeleteFirstNext ==
    /\ op = "delete_all_identities"
    /\ pc = "created"
    /\ pc' = "setup"
    /\ UNCHANGED << op, scan_vars, raised, acc, write_vars, table_vars,
                    service_vars >>

\* line 72: writer.delete_item for the item just yielded; the batch writer
\* may send what it holds at any such call (w_idx: the deletes sent so far)
DeleteYieldedItem ==
    /\ UNCHANGED service_vars
    /\ op = "delete_all_identities"
    /\ pc = "yield"
    /\ sent' = Append(sent, [composite_key |->
                                yielded[Len(yielded)].composite_key])
    /\ \E flush \in BOOLEAN :
          IF flush
          THEN /\ self_table' = FlushDeletes(self_table, sent')
               /\ w_idx' = Len(sent')
          ELSE UNCHANGED << self_table, w_idx >>
    /\ pc' = "for"
    /\ item_idx' = item_idx + 1
    /\ UNCHANGED << op, store, capacity_budget, get_all_items_kwargs,
                    last_evaluated_key, capacity_spent, query_response,
                    requests, yielded, raised, acc, identities, history >>

\* line 67: the generator is exhausted and the with block is left: the batch
\* writer sends the deletes it still holds
DeleteAllReturn ==
    /\ UNCHANGED service_vars
    /\ op = "delete_all_identities"
    /\ pc = "done"
    /\ self_table' = FlushDeletes(self_table, sent)
    /\ pc' = "returned"
    /\ UNCHANGED << op, scan_vars, raised, acc, write_vars, history >>

DelNext ==
    \/ Call_delete_all_identities
    \/ DeleteFirstNext
    \/ Generator
    \/ DeleteYieldedItem
    \/ DeleteAllReturn
    \/ Finish

DelSpec == DelInit /\ [][DelNext]_vars

----------------------------------------------------------------------------
(* search_items: one query on a secondary index *)

\* Key(attribute).<method>(value)
KeyCondition(attribute, method, value) ==
    [attribute |-> attribute, method |-> method, value |-> value]

\* the search requests: attribute, operator, term and index to query
SearchRequests ==
    [search_attribute : {"identifier"},
     dynamo_search_method : {"eq", "begins_with"},
     search_term : {"al", "alice"},
     dynamo_index_name : {"environment_api_key-identifier-index"}]

EnvironmentApiKeys == {"env", "env2"}
Limits == {1, 10}
StartKeys == {None, Some([page |-> 1])}

\* the tables searched: a first page with a continuation key, and more
SearchStores == {t \in ScanStores : Len(t) >= 2}

\* lines 158-174: the query built from the arguments
search_query_kwargs(environment_api_key, search_data, limit, start_key) ==
    [IndexName |-> search_data.dynamo_index_name,
     Limit |-> limit,
     KeyConditionExpression |->
        << KeyCondition("environment_api_key", "eq", environment_api_key),
           KeyCondition(search_data.search_attribute,
                        search_data.dynamo_search_method,
                        search_data.search_term) >>,
     ExclusiveStartKey |-> IF Truthy(start_key) THEN start_key ELSE None,
     FilterExpression |-> None]

\* lines 152-175: the queries made and the value returned
search_items_following(table, environment_api_key, search_data, limit, start_key) ==
    LET first == search_query_kwargs(environment_api_key, search_data, limit,
                                     start_key)
        response == query_items(table, first)
        second == search_query_kwargs(environment_api_key, search_data, limit,
                                      response.LastEvaluatedKey)
    IN  IF Truthy(response.LastEvaluatedKey)
        THEN [requests |-> << first, second >>,
              value |-> query_items(table, second)]
        ELSE [requests |-> << first >>, value |-> response]
search_items(table, environment_api_key, search_data, limit, start_key) ==
    LET query_kwargs == search_query_kwargs(environment_api_key, search_data,
                                            limit, start_key)
    IN  [requests |-> << query_kwargs >>,
         value |-> query_items(table, query_kwargs)]

Call_search_items ==
    /\ op = "idle"
    /\ \E table \in SearchStores, environment_api_key \in EnvironmentApiKeys,
          search_data \in SearchRequests, limit \in Limits,
          start_key \in StartKeys :
          LET outcome == search_items(table, environment_api_key, search_data,
                                      limit, start_key)
          IN  /\ store' = table
              /\ requests' = outcome.requests
              /\ acc' = [args |-> [environment_api_key |-> environment_api_key,
                                   search_data |-> search_data,
                                   limit |-> limit,
                                   start_key |-> start_key],
                         value |-> Some(outcome.value)]
    /\ op' = "search_items"
    /\ pc' = "returned"
    /\ UNCHANGED << capacity_budget, get_all_items_kwargs, last_evaluated_key,
                    capacity_spent, query_response, item_idx, yielded, raised,
                    write_vars, table_vars,
                    service_vars >>

SearchNext ==
    \/ Call_search_items
    \/ Finish

SearchSpec == Init /\ [][SearchNext]_vars

----------------------------------------------------------------------------
(* FFAdminUser.join_organisation *)

\* no call of any operation is in progress
NoCall ==
    /\ op = IdleState.op
    /\ pc = IdleState.pc
    /\ store = IdleState.store
    /\ capacity_budget = IdleState.capacity_budget
    /\ get_all_items_kwargs = IdleState.get_all_items_kwargs
    /\ last_evaluated_key = IdleState.last_evaluated_key
    /\ capacity_spent = IdleState.capacity_spent
    /\ query_response = IdleState.query_response
    /\ item_idx = IdleState.item_idx
    /\ requests = IdleState.requests
    /\ yielded = IdleState.yielded
    /\ raised = IdleState.raised
    /\ acc = IdleState.acc
    /\ identities = IdleState.identities
    /\ w_idx = IdleState.w_idx
    /\ sent = IdleState.sent

\* an email address: a string of characters, some of them cased
Characters == {"a", "A", "b"}

\* the emails invites are sent to
Emails == {<< "A", "b" >>, << "b", "a" >>}

\* the emails the user may have registered with
UserEmails == {<< "a", "b" >>, << "A", "b" >>}

\* str.lower(), character by character
LowerChar(c) == IF c = "A" THEN "a" ELSE c

lower(string) == [i \in 1..Len(string) |-> LowerChar(string[i])]

\* line 86: invite.email.lower() != self.email.lower()
EmailMismatch_caseSensitive(invite_email, email) == invite_email # email
EmailMismatch(invite_email, email) == lower(invite_email) # lower(email)

\* OrganisationRole(value): the member of the enumeration with that value
OrganisationRoleValues == {"ADMIN", "USER"}

OrganisationRole(value) ==
    IF value \in OrganisationRoleValues
    THEN Returns([name |-> value, value |-> value])
    ELSE Raises("ValueError")

Organisations == {"org1", "org2"}

\* the fields of an Invite row
InviteRows == [email : Emails, organisation : Organisations,
               role : OrganisationRoleValues]

\* the primary keys of the Invite rows that are stored
StoredInvites(rows) == {id \in 1..Len(rows) : rows[id] # None}

\* Meta.unique_together = ('email', 'organisation')
InviteConflict(rows, new) ==
    \E id \in StoredInvites(rows) :
        /\ rows[id][1].email = new.email
        /\ rows[id][1].organisation = new.organisation

\* line 100: UserOrganisation.objects.create(user=self, organisation=..., role=role.name)
add_organisation(rows, organisation, role) ==
    Append(rows, [user |-> "self", organisation |-> organisation,
                  role |-> role.name])

\* line 103: UserOrganisation.objects.filter(user=self, organisation=...).delete()
remove_organisation(rows, organisation) ==
    SelectSeq(rows, LAMBDA row : ~ (/\ row.user = "self"
                                     /\ row.organisation = organisation))

\* the requests that are served at the same time
Requests == {"r1", "r2"}

\* no join_organisation call is made by the request
NoJoin == [pc |-> "idle", invite |-> 0, args |-> None, raised |-> None,
           statements |-> << >>]

\* the user's memberships: those stored and those a call that has passed the
\* email check is about to insert
Memberships(rows, calls) ==
    Len(SelectSeq(rows, LAMBDA row : row.user = "self"))
       + Cardinality({r \in Requests : calls[r].pc = "add_organisation"})

AdminInit ==
    /\ NoCall
    /\ self_table = { }
    /\ history = << >>
    /\ user_email \in UserEmails
    /\ invites = << >>
    /\ joins = [r \in Requests |-> NoJoin]
    /\ user_organisations \in
          {<< >>, << [user |-> "other", organisation |-> "org1",
                      role |-> "ADMIN"] >>}
    /\ records = << >>
    /\ written = << >>

\* lines 228-231: Invite.save() of a new invite; the mail is sent, then the
\* row is inserted unless a stored row has its email and organisation
Invite_save ==
    /\ Len(invites) < MaxInvites
    /\ \E new \in InviteRows :
          IF InviteConflict(invites, new)
          THEN /\ raised' = Some("IntegrityError")
               /\ UNCHANGED invites
          ELSE /\ raised' = None
               /\ invites' = Append(invites, Some(new))
    /\ UNCHANGED << op, pc, scan_vars, acc, write_vars, table_vars,
                    user_email, joins, user_organisations, influx_vars >>

\* lines 99-100, called on the user directly
Call_add_organisation ==
    /\ Memberships(user_organisations, joins) < MaxMemberships
    /\ \E organisation \in Organisations, value \in OrganisationRoleValues :
          user_organisations' =
             add_organisation(user_organisations, organisation,
                              OrganisationRole(value).value[1])
    /\ UNCHANGED << op, pc, scan_vars, raised, acc, write_vars, table_vars,
                    user_email, invites, joins, influx_vars >>

\* lines 102-103
Call_remove_organisation ==
    /\ \E organisation \in Organisations :
          /\ user_organisations' =
                remove_organisation(user_organisations, organisation)
          /\ user_organisations' # user_organisations
    /\ UNCHANGED << op, pc, scan_vars, raised, acc, write_vars, table_vars,
                    user_email, invites, joins, influx_vars >>

\* lines 83-87: a request calls join_organisation with an invite it has
\* read from the table; the emails are compared
JoinCall(r) ==
    /\ joins[r].pc = "idle"
    /\ \E id \in StoredInvites(invites) :
          IF EmailMismatch(invites[id][1].email, user_email)
          THEN joins' = [joins EXCEPT ![r] =
                  [pc |-> "raised", invite |-> id, args |-> invites[id],
                   raised |-> Some("InvalidInviteError"),
                   statements |-> << >>]]
          ELSE /\ Memberships(user_organisations, joins) < MaxMemberships
               /\ joins' = [joins EXCEPT ![r] =
                     [pc |-> "add_organisation", invite |-> id,
                      args |-> invites[id], raised |-> None,
                      statements |-> << >>]]
    /\ UNCHANGED << op, pc, scan_vars, raised, acc, write_vars, table_vars,
                    user_email, invites, user_organisations, influx_vars >>

\* line 89: the INSERT of the UserOrganisation row
JoinAddOrganisation(r) ==
    /\ joins[r].pc = "add_organisation"
    /\ LET invite == joins[r].args[1]
           role == OrganisationRole(invite.role)
       IN  IF Truthy(role.raised)
           THEN /\ joins' = [joins EXCEPT ![r].pc = "raised",
                                          ![r].raised = role.raised]
                /\ UNCHANGED user_organisations
           ELSE /\ user_organisations' =
                      add_organisation(user_organisations,
                                       invite.organisation, role.value[1])
                /\ joins' = [joins EXCEPT
                      ![r].pc = "delete",
                      ![r].statements =
                         << [statement |-> "INSERT",
                             row |-> user_organisations'[
                                        Len(user_organisations')]] >>]
    /\ UNCHANGED << op, pc, scan_vars, raised, acc, write_vars, table_vars,
                    user_email, invites, influx_vars >>

\* line 90: the DELETE of the Invite row, by primary key; it removes nothing
\* when the row is gone already, and leaves the row when the statement fails
JoinInviteDelete(r) ==
    /\ joins[r].pc = "delete"
    /\ \E fails \in BOOLEAN :
          IF fails
          THEN /\ joins' = [joins EXCEPT ![r].pc = "raised",
                                         ![r].raised = Some("DatabaseError")]
               /\ UNCHANGED invites
          ELSE /\ invites' = [invites EXCEPT ![joins[r].invite] = None]
               /\ joins' = [joins EXCEPT
                     ![r].pc = "returned",
                     ![r].statements =
                        Append(joins[r].statements,
                               [statement |-> "DELETE",
                                row |-> joins[r].invite])]
    /\ UNCHANGED << op, pc, scan_vars, raised, acc, write_vars, table_vars,
                    user_email, user_organisations, influx_vars >>

\* the request is over
JoinDone(r) ==
    /\ joins[r].pc \in {"returned", "raised"}
    /\ joins' = [joins EXCEPT ![r] = NoJoin]
    /\ UNCHANGED << op, pc, scan_vars, raised, acc, write_vars, table_vars,
                    user_email, invites, user_organisations, influx_vars >>

AdminNext ==
    \/ Invite_save
    \/ Call_add_organisation
    \/ Call_remove_organisation
    \/ \E r \in Requests : JoinCall(r)
    \/ \E r \in Requests : JoinAddOrganisation(r)
    \/ \E r \in Requests : JoinInviteDelete(r)
    \/ \E r \in Requests : JoinDone(r)

AdminSpec == AdminInit /\ [][AdminNext]_vars

----------------------------------------------------------------------------
(* InfluxDBWrapper: add_data_point and write *)

\* Point(self.name).field(field_name, field_value), then .tag(...) per tag
Point(name, field_name, field_value, tags) ==
    [measurement |-> name,
     field |-> << field_name, field_value >>,
     tags |-> IF Truthy(tags) THEN tags[1] ELSE { }]

FieldValues == {1, 2}

TagMappings == {None, Some({ }), Some({<< "feature_id", 1 >>})}

\* how write_api.write may end: it returns, or raises one of the errors
\* that write catches
WriteOutcomes == {"ok", "HTTPError", "InfluxDBError"}

\* lines 86-99: self.records after write, whatever the outcome
RecordsAfterWrite_flushed(current, outcome) ==
    IF outcome = "ok" THEN << >> ELSE current
RecordsAfterWrite(current, outcome) == current

AddsSoFar == Cardinality({i \in 1..Len(history) :
                             history[i].call = "add_data_point"})

\* lines 67-83; the call log keeps the point built
Call_add_data_point ==
    /\ AddsSoFar < MaxPoints
    /\ \E field_value \in FieldValues, tags \in TagMappings :
          LET point == Point("api_call", "request_count", field_value, tags)
          IN  /\ records' = Append(records, point)
              /\ history' = Append(history, [call |-> "add_data_point",
                                             point |-> Some(point)])
              /\ EndCall("add_data_point",
                         [field_value |-> field_value, tags |-> tags],
                         Returns(None))
    /\ UNCHANGED << self_table, admin_vars, written >>

\* lines 85-99: the records are handed to the write api; its HTTP and Influx
\* errors are logged, not raised
Call_write ==
    /\ Len(written) < MaxWrites
    /\ \E outcome \in WriteOutcomes :
          /\ written' = Append(written, [record |-> records,
                                         outcome |-> outcome])
          /\ records' = RecordsAfterWrite(records, outcome)
          /\ history' = Append(history, [call |-> "write", point |-> None])
          /\ EndCall("write", outcome, Returns(None))
    /\ UNCHANGED << self_table, admin_vars >>

InfluxNext ==
    \/ Call_add_data_point
    \/ Call_write
    \/ Finish

InfluxSpec == Init /\ [][InfluxNext]_vars

----------------------------------------------------------------------------
(* Vocabulary of the properties *)

Scanning == op \notin {"idle", "write_identities"}

BudgetAborted ==
    /\ pc = "raised"
    /\ Truthy(raised)
    /\ raised[1].type = "CapacityBudgetExceeded"

RECURSIVE ConcatItems(_, _)
\* the Items of pages 1..k of a table, concatenated in page order
ConcatItems(table, k) ==
    IF k = 0 THEN << >> ELSE ConcatItems(table, k - 1) \o table[k].Items

RECURSIVE ReportedBefore(_, _)
\* c1 + ... + c(k-1): the capacity reported by the pages before page k
ReportedBefore(table, k) ==
    IF k <= 1 THEN 0
    ELSE ReportedBefore(table, k - 1)
         + (IF table[k - 1].ConsumedCapacity = << >> THEN 0
            ELSE table[k - 1].ConsumedCapacity[1])

IsPrefix(s, t) == Len(s) <= Len(t) /\ s = SubSeq(t, 1, Len(s))

Reaches(sum, budget) == ~budget.inf /\ sum >= budget.val

----------------------------------------------------------------------------
(* Properties of the scan, iter_all_items_paginated *)

\* C1: without budget abort the completed scan has yielded exactly the
\* concatenation of the pages' Items, in page order, each item once; at
\* every moment before that it has yielded a prefix of it.
C1_YieldsConcatenationOfPages ==
    op = "iter_all_items_paginated" =>
        /\ IsPrefix(yielded, ConcatItems(store, Len(store)))
        /\ pc = "done" => yielded = ConcatItems(store, Len(store))

C1_Witness ==
    /\ op = "iter_all_items_paginated"
    /\ pc = "done"
    /\ Len(store) = 2
    /\ Len(store[1].Items) = 2
    /\ Len(store[2].Items) >= 1
    /\ Len(yielded) >= 3

\* C2: every page request is issued with the capacity reported so far
\* below the budget, and the scan aborts with CapacityBudgetExceeded
\* before the first page k with c1 + ... + c(k-1) >= B, which is never
\* requested.
C2_AbortsBeforeFirstPageOverBudget ==
    op = "iter_all_items_paginated" =>
        /\ \A j \in 1..Len(requests) :
              ~Reaches(ReportedBefore(store, j), capacity_budget)
        /\ BudgetAborted =>
              Reaches(ReportedBefore(store, Len(requests) + 1), capacity_budget)
        /\ pc = "query" =>
              ~Reaches(ReportedBefore(store, Len(requests) + 1), capacity_budget)

C2_Witness ==
    /\ op = "iter_all_items_paginated"
    /\ BudgetAborted
    /\ Len(requests) = 1
    /\ Len(store) = 2
    /\ capacity_budget.val > 0

\* C3 as stated: whatever the budget, CapacityBudgetExceeded is never
\* raised before the first page has been requested.
C3_FirstPageAlwaysRequested ==
    BudgetAborted => Len(requests) >= 1

\* C3 as amended: with a capacity_budget greater than zero the first page
\* is requested before the budget error can be raised; with a budget of
\* zero or less the error is raised before any page is requested.
C3_FirstPageRequestedIfBudgetPositive ==
    BudgetAborted => (Len(requests) >= 1 <=> capacity_budget.val > 0)

C3_Witness ==
    /\ BudgetAborted
    /\ capacity_budget.val = 1
    /\ Len(requests) = 1

\* C4: each page request asks for consumed capacity exactly when the budget
\* is finite, and with the unbounded budget CapacityBudgetExceeded is never
\* raised, whatever the responses report.
C4_CapacityRequestedIffBudgetFinite ==
    Scanning =>
        /\ \A j \in 1..Len(requests) :
              (requests[j].ReturnConsumedCapacity = << "TOTAL" >>)
                 <=> ~capacity_budget.inf
        /\ \A j \in 1..Len(requests) :
              requests[j].ReturnConsumedCapacity \in {<< >>, << "TOTAL" >>}
        /\ capacity_budget.inf => ~BudgetAborted

C4_Witness ==
    /\ op = "iter_all_items_paginated"
    /\ capacity_budget.inf
    /\ pc = "done"
    /\ Len(requests) = 2
    /\ capacity_spent >= 2

\* C5: the scan is done only after a response without continuation key, all
\* of whose items were yielded; after such a response no further request is
\* issued; a response with a continuation key does not end the scan even if
\* its Items are empty; and every scan that is started ends (done, or
\* aborted by the budget, or abandoned by its caller).
C5_KeylessResponse ==
    /\ Truthy(query_response)
    /\ ~Truthy(query_response[1].LastEvaluatedKey)

C5_EndsExactlyAtKeylessPage ==
    /\ [](Scanning /\ pc = "done" =>
            /\ C5_KeylessResponse
            /\ Len(requests) = Len(store)
            /\ yielded = ConcatItems(store, Len(store)))
    /\ [](Scanning /\ pc = "while" /\ Truthy(query_response)
            /\ Truthy(query_response[1].LastEvaluatedKey)
            => Truthy(last_evaluated_key))
    /\ [][C5_KeylessResponse /\ op' = op => requests' = requests]_vars
    /\ (pc = "setup" ~> pc \in {"done", "raised", "closed"})

C5_Witness ==
    /\ op = "iter_all_items_paginated"
    /\ pc = "done"
    /\ Len(store) = 2
    /\ Len(store[1].Items) = 0
    /\ Len(yielded) >= 1

----------------------------------------------------------------------------
(* Properties of the override aggregators *)

\* the feature id an override entry refers to: feature.id, 0 when missing
OverrideFeatureId(entry) ==
    IF entry.feature = << >> THEN 0
    ELSE IF entry.feature[1] = << >> THEN 0
    ELSE entry.feature[1][1]

OverrideFeatureIds(identity) ==
    {OverrideFeatureId(identity.identity_features[k]) :
        k \in 1..Len(identity.identity_features)}

HasOverrides(identity) == identity.identity_features # << >>

\* the identities the overrides-only scan of a table yields
ScannedIdentities(table) ==
    SelectSeq(ConcatItems(table, Len(table)), HasOverrides)

RECURSIVE SumDistinctOverrides(_, _)
\* sum over the first n identities of their number of distinct feature ids
SumDistinctOverrides(ids, n) ==
    IF n = 0 THEN 0
    ELSE SumDistinctOverrides(ids, n - 1)
         + Cardinality(OverrideFeatureIds(ids[n]))

\* the identities (by position) whose override list mentions feature f
Overriders(ids, f) == {i \in 1..Len(ids) : f \in OverrideFeatureIds(ids[i])}

AggregatorEnded == op \in AggregatorOps /\ pc \in {"returned", "raised"}

\* every override entry of every stored identity names its feature
EveryEntryNamesItsFeature(table) ==
    \A i \in 1..Len(ScannedIdentities(table)) :
        \A k \in 1..Len(ScannedIdentities(table)[i].identity_features) :
            LET entry == ScannedIdentities(table)[i].identity_features[k]
            IN  entry.feature # << >> /\ entry.feature[1] # << >>

\* C6: get_identity_overrides_count returns the sum over the scanned
\* identities of the number of distinct feature ids in each identity's
\* override list (stated for identities whose entries all name a feature).
C6_OverridesCountIsSumOfDistinctIds ==
    /\ op = "get_identity_overrides_count"
    /\ AggregatorEnded
    /\ EveryEntryNamesItsFeature(store)
    =>
        /\ pc = "returned"
        /\ acc = SumDistinctOverrides(ScannedIdentities(store),
                                      Len(ScannedIdentities(store)))

\* C7: get_identity_override_feature_counts returns a mapping whose keys
\* are exactly the feature ids some scanned identity overrides, each mapped
\* to the number of scanned identities whose list mentions it at least once.
C7_FeatureCountsAreDistinctIdentities ==
    op = "get_identity_override_feature_counts" /\ pc = "returned" =>
        LET ids == ScannedIdentities(store)
        IN  /\ DOMAIN acc = {f \in 0..2 : Overriders(ids, f) # {}}
            /\ \A f \in DOMAIN acc : acc[f] = Cardinality(Overriders(ids, f))

C7_Witness ==
    /\ op = "get_identity_override_feature_counts"
    /\ pc = "returned"
    /\ Len(yielded) = 2
    /\ \E i \in 1..2 :
          Len(yielded[i].identity_features)
             > Cardinality(OverrideFeatureIds(yielded[i]))
    /\ \E f \in DOMAIN acc : acc[f] = 2
    /\ \E f \in DOMAIN acc : acc[f] = 1

\* an identity all of whose override entries lack the feature reference
OnlyMissingFeatureIds(identity) ==
    /\ HasOverrides(identity)
    /\ \A k \in 1..Len(identity.identity_features) :
          /\ identity.identity_features[k].feature = << >>
          /\ identity.identity_features[k].feature_id = << >>

\* C8: in both aggregators an override entry without feature id is counted
\* as feature id 0 and never makes the operation end with an error.
C8_MissingFeatureIdNeverRaises ==
    /\ op \in AggregatorOps
    /\ Len(yielded) > 0
    /\ OnlyMissingFeatureIds(yielded[Len(yielded)])
    => pc # "raised"

----------------------------------------------------------------------------
(* Properties of write_identities *)

FitsIn1024Characters(document) ==
    document.identifier.ascii + document.identifier.wide <= 1024

\* C9: the batch writer receives exactly the documents whose identifier is
\* at most 1024 characters long, once each and in input order; a longer
\* one is skipped and the documents before and after it are still written.
C9_WritesExactlyDocumentsWithinLimit ==
    op = "write_identities" =>
        /\ w_idx - 1 <= Len(identities)
        /\ sent = SelectSeq(SubSeq(identities, 1, w_idx - 1),
                            FitsIn1024Characters)
        /\ pc = "returned" =>
              /\ sent = SelectSeq(identities, FitsIn1024Characters)
              /\ \A i \in 1..Len(identities) :
                    FitsIn1024Characters(identities[i]) =>
                       identities[i] \in self_table
        /\ \A row \in self_table : FitsIn1024Characters(row)

C9_Witness ==
    /\ op = "write_identities"
    /\ pc = "returned"
    /\ Len(identities) = 3
    /\ FitsIn1024Characters(identities[1])
    /\ ~FitsIn1024Characters(identities[2])
    /\ FitsIn1024Characters(identities[3])
    /\ sent = << identities[1], identities[3] >>
    /\ self_table = {identities[1], identities[3]}

\* C10: no document whose identifier encodes to more than 1024 bytes is
\* ever passed to the batch writer.
C10_NeverSendsIdentifierOver1024Bytes ==
    \A i \in 1..Len(sent) : Utf8Len(sent[i].identifier) <= 1024

----------------------------------------------------------------------------
(* Properties of the lookups and of put / get / delete *)

UuidStored(uuid) == \E r \in self_table : r.identity_uuid = uuid

\* C11: for a uuid no stored identity carries, get_item_from_uuid_or_404
\* ends with NotFound while get_segment_ids(identity_pk=uuid) returns the
\* empty list without error; for a stored uuid get_item_from_uuid_or_404
\* returns the first item of the uuid-index query.
C11_MissingUuidIs404ButNoSegments ==
    /\ op = "get_item_from_uuid_or_404" =>
          IF UuidStored(acc.args.uuid)
          THEN /\ pc = "returned"
               /\ acc.value = << acc.args.response.Items[1] >>
               /\ acc.value[1] \in self_table
               /\ acc.value[1].identity_uuid = acc.args.uuid
          ELSE /\ pc = "raised"
               /\ raised = << "NotFound" >>
    /\ (/\ op = "get_segment_ids"
        /\ acc.args.identity_pk # << >>
        /\ acc.args.identity_model = << >>
        /\ ~UuidStored(acc.args.identity_pk[1]))
       => /\ pc = "returned"
          /\ raised = << >>
          /\ acc.value = << << >> >>

C11_Witness ==
    /\ op = "get_segment_ids"
    /\ acc.args.identity_pk = << "u2" >>
    /\ acc.args.identity_model = << >>
    /\ self_table # { }
    /\ ~UuidStored("u2")
    /\ pc = "returned"

\* what the log of put_item / delete_item calls leaves under a key: the item
\* of the last put if no delete of the key followed it, nothing otherwise
RECURSIVE LastWrite(_, _)
LastWrite(log, composite_key) ==
    IF Len(log) = 0 THEN None
    ELSE IF log[Len(log)].composite_key = composite_key
    THEN log[Len(log)].item
    ELSE LastWrite(SubSeq(log, 1, Len(log) - 1), composite_key)

RowsLeftBy(log) ==
    {LastWrite(log, k)[1] : k \in {c \in CompositeKeys : LastWrite(log, c) # << >>}}

\* C13: after any sequence of put_item and delete_item calls, get_item(k)
\* returns the item most recently put under k unless a delete_item(k)
\* followed, and None (no error) otherwise; a put is read back equal, a
\* repeated put leaves the same state, and deleting an absent key is no
\* error and changes nothing.
C13_GetReturnsLastPutNotDeleted ==
    /\ op = "get_item" =>
          /\ pc = "returned"
          /\ raised = << >>
          /\ acc.value = << LastWrite(history, acc.args) >>
    /\ op = "put_item" =>
          /\ pc = "returned"
          /\ get_item(self_table, acc.args.composite_key).value = << << acc.args >> >>
    /\ op = "delete_item" =>
          /\ pc = "returned"
          /\ raised = << >>
          /\ get_item(self_table, acc.args).value = << << >> >>
    /\ self_table = RowsLeftBy(history)

C13_Witness ==
    /\ op = "get_item"
    /\ Len(history) = 3
    /\ history[1].call = "put_item" /\ history[1].composite_key = acc.args
    /\ history[2].call = "delete_item" /\ history[2].composite_key = acc.args
    /\ history[3].call = "put_item" /\ history[3].composite_key # acc.args
    /\ acc.value = << << >> >>

\* C12: with overrides_only set (as both aggregators call the scan), every
\* page request, the first and every continuation, carries the filter
\* "identity_features is not the empty list" together with the continuation
\* key, and no item with an empty override list is ever yielded.
C12_OverridesOnlyFiltersEveryPage ==
    op \in AggregatorOps =>
        /\ \A j \in 1..Len(requests) :
              /\ requests[j].FilterExpression = << "identity_features <> []" >>
              /\ j > 1 => /\ requests[j].ExclusiveStartKey # << >>
                          /\ requests[j].ExclusiveStartKey =
                                store[j - 1].LastEvaluatedKey
        /\ \A i \in 1..Len(yielded) : yielded[i].identity_features # << >>

C12_Witness ==
    /\ op \in AggregatorOps
    /\ Len(requests) = 2
    /\ \E i \in 1..Len(store[2].Items) :
          store[2].Items[i].identity_features = << >>
    /\ store[1].Items[1].identity_features # << >>
    /\ Len(yielded) = 1
    /\ pc = "while"

TransportAborted ==
    /\ pc = "raised"
    /\ raised # << >>
    /\ raised[1].type \in TransportErrors

\* C14: when the request for page N fails in the transport, the scan ends
\* with that same error, page N is requested exactly once and nothing after
\* it, and the caller has received exactly the items of pages 1..N-1, in
\* order.
C14_TransportErrorEndsScanWithoutRetry ==
    op = "iter_all_items_paginated" =>
        /\ Len(requests) <= Len(store)
        /\ Len(requests) = Len(store) =>
              /\ TransportAborted
              /\ raised[1].type = store[Len(store)].TransportError
              /\ yielded = ConcatItems(store, Len(store) - 1)
        /\ TransportAborted => Len(requests) = Len(store)

C14_Witness ==
    /\ TransportAborted
    /\ Len(store) = 2
    /\ Len(requests) = 2
    /\ Len(yielded) = 2

\* C15: search_items issues exactly one query per call, also when the
\* response carries a continuation key: its key condition is
\* "environment_api_key equals the given key" AND the sort-key condition of
\* the search request, its Limit is the given limit, it carries
\* ExclusiveStartKey exactly when the caller passed a start key, and the
\* response of the store is returned unchanged.
C15_SearchIsOneQueryReturnedUnchanged ==
    op = "search_items" =>
        /\ Len(requests) = 1
        /\ requests[1].IndexName = acc.args.search_data.dynamo_index_name
        /\ requests[1].KeyConditionExpression =
              << [attribute |-> "environment_api_key", method |-> "eq",
                  value |-> acc.args.environment_api_key],
                 [attribute |-> acc.args.search_data.search_attribute,
                  method |-> acc.args.search_data.dynamo_search_method,
                  value |-> acc.args.search_data.search_term] >>
        /\ requests[1].Limit = acc.args.limit
        /\ requests[1].ExclusiveStartKey = acc.args.start_key
        /\ requests[1].FilterExpression = << >>
        /\ pc = "returned"
        /\ acc.value =
              << store[IF acc.args.start_key = << >> THEN 1
                       ELSE acc.args.start_key[1].page + 1] >>

C15_Witness ==
    /\ op = "search_items"
    /\ acc.args.start_key = << >>
    /\ acc.args.search_data.dynamo_search_method = "begins_with"
    /\ acc.value[1].LastEvaluatedKey # << >>
    /\ Len(acc.value[1].Items) = 2
    /\ Len(requests) = 1

\* C16: the request for page 1 carries no start key; the request for page
\* N+1 is issued after the response of page N was received and carries as
\* its start key exactly the continuation key of that response, not an older
\* one; environment key, limit, projection and filter are the same on every
\* request of the scan.
C16_EachRequestResumesFromPreviousPage ==
    op = "iter_all_items_paginated" =>
        /\ \A j \in 1..Len(requests) :
              /\ j = 1 => requests[j].ExclusiveStartKey = << >>
              /\ j > 1 => /\ store[j - 1].LastEvaluatedKey # << >>
                          /\ requests[j].ExclusiveStartKey =
                                store[j - 1].LastEvaluatedKey
              /\ requests[j].KeyConditionExpression =
                    requests[1].KeyConditionExpression
              /\ requests[j].Limit = requests[1].Limit
              /\ requests[j].ProjectionExpression =
                    requests[1].ProjectionExpression
              /\ requests[j].FilterExpression = requests[1].FilterExpression
        /\ Len(requests) >= 1 =>
              /\ query_response # << >>
              /\ query_response[1].LastEvaluatedKey =
                    store[Len(requests)].LastEvaluatedKey
              /\ query_response[1].Items = store[Len(requests)].Items

C16_Witness ==
    /\ op = "iter_all_items_paginated"
    /\ Len(requests) = 3
    /\ requests[2].ExclusiveStartKey = << [page |-> 1] >>
    /\ requests[3].ExclusiveStartKey = << [page |-> 2] >>

\* the page an item of a scanned table was read from
PageOf(item) == item.composite_key[1]

\* C17: the scan is pull-based: page N+1 is requested only after the caller
\* has been handed every item of page N and asked for one more; while the
\* caller holds an item of page N, and after it stops there, no request
\* beyond page N has been issued, so the pages requested are at most one
\* more than the pages fully consumed.
C17_RequestsOnlyWhenCallerPulls ==
    op = "iter_all_items_paginated" =>
        /\ Len(requests) >= 1 =>
              IsPrefix(ConcatItems(store, Len(requests) - 1), yielded)
        /\ (pc = "yield" \/ (pc = "closed" /\ Len(yielded) > 0)) =>
              PageOf(yielded[Len(yielded)]) = Len(requests)
        /\ pc \in {"created", "closed"} /\ Len(yielded) = 0 =>
              Len(requests) = 0

C17_Witness ==
    /\ op = "iter_all_items_paginated"
    /\ pc = "closed"
    /\ Len(store) = 2
    /\ Len(store[1].Items) = 2
    /\ Len(store[2].Items) = 2
    /\ Len(yielded) = 2
    /\ Len(requests) = 1

\* C18: a CapacityBudgetExceeded raised by the scan carries the caller's
\* budget and, as capacity_spent, the sum of the capacity units reported by
\* all page responses received so far; every item of those pages has been
\* yielded before the error, and no page is requested after it.
C18_BudgetErrorCarriesBudgetAndSpent ==
    (op = "iter_all_items_paginated" /\ BudgetAborted) =>
        /\ raised[1].capacity_budget = capacity_budget
        /\ raised[1].capacity_spent =
              ReportedBefore(store, Len(requests) + 1)
        /\ yielded = ConcatItems(store, Len(requests))
        /\ Len(requests) < Len(store) \/ Len(requests) = 0

C18_Witness ==
    /\ op = "iter_all_items_paginated"
    /\ BudgetAborted
    /\ Len(requests) = 2
    /\ Len(store) = 3
    /\ raised[1].capacity_spent = 2
    /\ raised[1].capacity_budget = Dec(2)
    /\ Len(yielded) = 2

NoCapacityReported(table) ==
    \A p \in 1..Len(table) : table[p].ConsumedCapacity = << >>

\* C19: if no page response carries a consumed-capacity figure,
\* capacity_spent stays 0 for the whole scan: the missing figure is no error
\* and adds nothing, so under every finite budget greater than 0 the scan
\* never raises CapacityBudgetExceeded and yields the items of all pages.
C19_UnreportedCapacityNeverAborts ==
    (op = "iter_all_items_paginated" /\ NoCapacityReported(store)) =>
        /\ capacity_spent = 0
        /\ (capacity_budget.inf \/ capacity_budget.val > 0) =>
              /\ pc # "raised"
              /\ raised = << >>
              /\ pc = "done" => yielded = ConcatItems(store, Len(store))

C19_Witness ==
    /\ op = "iter_all_items_paginated"
    /\ NoCapacityReported(store)
    /\ capacity_budget = Dec(1)
    /\ Len(store) = 3
    /\ Len(requests) = 3
    /\ Len(yielded) = 3
    /\ pc = "done"

RECURSIVE FeatureCountsOf(_, _)
\* the mapping get_identity_override_feature_counts builds from the first n
\* identities of a scan
FeatureCountsOf(ids, n) ==
    IF n = 0 THEN [f \in { } |-> 0]
    ELSE CountIdentity(FeatureCountsOf(ids, n - 1), ids[n])

ValueAt(counts, f) == IF f \in DOMAIN counts THEN counts[f] ELSE 0

SumOfValues(counts) == ValueAt(counts, 0) + ValueAt(counts, 1) + ValueAt(counts, 2)

\* C20: the two aggregates agree: over the same table content
\* get_identity_overrides_count returns the sum of all values of
\* get_identity_override_feature_counts (stated for identities whose
\* entries all name a feature).
C20_OverridesCountIsSumOfFeatureCounts ==
    /\ op = "get_identity_overrides_count"
    /\ AggregatorEnded
    /\ EveryEntryNamesItsFeature(store)
    =>
        /\ pc = "returned"
        /\ acc = SumOfValues(FeatureCountsOf(ScannedIdentities(store),
                                             Len(ScannedIdentities(store))))

----------------------------------------------------------------------------
(* Properties of delete_all_identities *)

RowsOfEnvironment(rows, environment_api_key) ==
    {r \in rows : r.environment_api_key = environment_api_key}

DeletedKeys == {sent[i].composite_key : i \in 1..Len(sent)}

\* C21: when delete_all_identities(env) completes, over any number of pages,
\* it has issued a delete for the composite_key of every item stored under
\* env and for no other key: no item of env remains and the items of every
\* other environment are unchanged; deleting items while the scan is still
\* in progress does not make the scan skip an item of env.
C21_DeletesExactlyTheEnvironment ==
    op = "delete_all_identities" =>
        LET env == acc.args.environment_api_key
            before == acc.table_before
        IN  /\ DeletedKeys \subseteq
                  {r.composite_key : r \in RowsOfEnvironment(before, env)}
            /\ RowsOfEnvironment(self_table, "env2") =
                  RowsOfEnvironment(before, "env2")
            /\ pc = "returned" =>
                  /\ DeletedKeys =
                        {r.composite_key : r \in RowsOfEnvironment(before, env)}
                  /\ RowsOfEnvironment(self_table, env) = { }
                  /\ self_table = before \ RowsOfEnvironment(before, env)

C21_Witness ==
    /\ op = "delete_all_identities"
    /\ pc = "returned"
    /\ Cardinality(RowsOfEnvironment(acc.table_before, "env")) = 3
    /\ RowsOfEnvironment(acc.table_before, "env2") # { }
    /\ Len(requests) >= 3
    /\ requests[3].ExclusiveStartKey # << >>
    /\ w_idx = 2
    /\ Len(sent) = 3

----------------------------------------------------------------------------
(* Properties of join_organisation *)

SameLetter(c, d) == c = d \/ {c, d} = {"a", "A"}

\* equal up to the case of their letters
SameIgnoringCase(x, y) ==
    /\ Len(x) = Len(y)
    /\ \A i \in 1..Len(x) : SameLetter(x[i], y[i])

\* the writes a join_organisation call makes when the emails match
StatementsOfJoin(call) ==
    << [statement |-> "INSERT",
        row |-> [user |-> "self",
                 organisation |-> call.args[1].organisation,
                 role |-> call.args[1].role]],
       [statement |-> "DELETE", row |-> call.invite] >>

\* what holds of one join_organisation call, at each of its steps
JoinFollowsInvite(call) ==
    IF SameIgnoringCase(call.args[1].email, user_email)
    THEN /\ call.raised # << "InvalidInviteError" >>
         /\ call.pc = "add_organisation" => call.statements = << >>
         /\ call.pc \in {"delete", "raised"} =>
               call.statements = SubSeq(StatementsOfJoin(call), 1, 1)
         /\ call.pc = "returned" =>
               /\ call.statements = StatementsOfJoin(call)
               /\ invites[call.invite] = None
    ELSE /\ call.pc = "raised"
         /\ call.raised = << "InvalidInviteError" >>
         /\ call.statements = << >>
         /\ invites[call.invite] = call.args

\* a deleted invite is never stored again, and a call that begins is given
\* an invite that is stored
DeletedInviteIsGone ==
    /\ \A id \in 1..Len(invites) :
          invites[id] = None => invites'[id] = None
    /\ \A r \in Requests :
          (joins[r].pc = "idle" /\ joins'[r].pc # "idle") =>
             joins'[r].invite \in StoredInvites(invites)

----------------------------------------------------------------------------
(* Properties of InfluxDBWrapper *)

RECURSIVE PointsAdded(_, _)
\* the points of the add_data_point calls among the first n calls, in order
PointsAdded(log, n) ==
    IF n = 0 THEN << >>
    ELSE PointsAdded(log, n - 1) \o log[n].point

RECURSIVE PositionOfWrite(_, _, _)
\* the position in the call log of the j-th write call, searched from n down
PositionOfWrite(log, j, n) ==
    IF Cardinality({i \in 1..n : log[i].call = "write"}) = j
       /\ log[n].call = "write"
    THEN n
    ELSE PositionOfWrite(log, j, n - 1)

\* C23: write leaves the record list unchanged, when the write succeeds and
\* when it fails with an HTTP or Influx error (logged, not raised): after any
\* sequence of add_data_point and write calls, records holds every point
\* ever added, in insertion order, and each write has sent all points added
\* since construction, those sent by an earlier write included.
C23_WriteKeepsAndResendsAllRecords ==
    /\ records = PointsAdded(history, Len(history))
    /\ op = "write" => pc = "returned" /\ raised = << >>
    /\ \A j \in 1..Len(written) :
          written[j].record =
             PointsAdded(history, PositionOfWrite(history, j, Len(history)))

C23_Witness ==
    /\ op = "write"
    /\ Len(written) = 2
    /\ written[1].outcome = "ok"
    /\ Len(written[1].record) = 1
    /\ written[2].outcome = "HTTPError"
    /\ Len(written[2].record) = 2
    /\ written[2].record[1] = written[1].record[1]
    /\ Len(records) = 2

====
